---- MODULE Spec2Model ----
(***************************************************************************)
(* State machine of SmartIRFan (custom_components/smartir/fan.py): one fan *)
(* entity, its asyncio lock, the coroutines of the service calls running   *)
(* on it, the IR/RF controller's send and the power sensor's events.       *)
(*                                                                         *)
(* The event loop is cooperative: a coroutine runs without interruption    *)
(* from one suspension point to the next.  The suspension points of the    *)
(* entity's code are the wait on a held lock (`async with self._temp_lock`)*)
(* and `await self._controller.send(command)`; each action below is one    *)
(* such uninterrupted stretch.                                             *)
(***************************************************************************)
EXTENDS Integers, Sequences, FiniteSets, TLC

\* Number of service calls issued in one run on an entity with a power sensor;
\* an entity without one is followed for one call more (see CallBudget).
MaxCalls == 2
\* Length of the longest declared speed list.
MaxSpeeds == 2
\* Length of the longest speed list in the runs checked under fairness.
FairSpeeds == 1

SPEED_OFF == "off"
STATE_ON == "on"
STATE_OFF == "off"
STATE_UNAVAILABLE == "unavailable"
DIRECTION_REVERSE == "reverse"
DIRECTION_FORWARD == "forward"
\* Python's None, for the fields and arguments that are strings otherwise.
None == "None"
\* `percentage=None`, the default of async_turn_on.
NoPercentage == -1

Calls == 1..(MaxCalls + 1)

VARIABLES
    _speed_list,      \* device_data['speed']: the ordered speed levels
    _commands,        \* device_data['commands']: the command table
    _power_sensor,    \* whether CONF_POWER_SENSOR is configured
    _speed,           \* SPEED_OFF, a level, or None (on, level unknown)
    _direction,       \* None, or a direction
    _last_on_speed,   \* None, or the last level set
    _oscillating,     \* None (not supported), "False" or "True"
    _on_by_remote,    \* BOOLEAN
    locked,           \* _temp_lock._locked
    waiters,          \* _temp_lock._waiters: the calls queued on the lock, FIFO
    added,            \* async_added_to_hass has run
    subscribed,       \* async_track_state_change_event was called
    sensor,           \* the power sensor's state in the host: None when it has none
    calls,            \* the coroutine of each service call: what was asked, where it stands
    sendLog           \* the calls of self._controller.send, in order

vars == <<_speed_list, _commands, _power_sensor, _speed, _direction,
          _last_on_speed, _oscillating, _on_by_remote, locked, waiters,
          added, subscribed, sensor, calls, sendLog>>

device == <<_speed_list, _commands, _power_sensor>>
fields == <<_speed, _direction, _last_on_speed, _oscillating>>

----------------------------------------------------------------------------
(* The device definition *)

SpeedNames == <<"low", "medium", "high", "turbo", "max">>

Levels(list) == {list[i] : i \in 1..Len(list)}

\* A command table: "off", optionally "oscillate", and under each direction key
\* one payload per speed level.  A payload is a tuple naming its place in the table.
CommandTable(list, dirKeys, osc) ==
    [k \in {"off"} \cup dirKeys \cup (IF osc THEN {"oscillate"} ELSE {}) |->
        IF k \in {"off", "oscillate"} THEN <<k>>
        ELSE [s \in Levels(list) |-> <<k, s>>]]

DeviceDefinitions ==
    {[speed |-> SubSeq(SpeedNames, 1, n), commands |-> CommandTable(SubSeq(SpeedNames, 1, n), d, o)] :
        n \in 1..MaxSpeeds,
        d \in {{"default"}, {DIRECTION_FORWARD, DIRECTION_REVERSE}},
        o \in BOOLEAN}

SupportsDirection(commands) ==
    DIRECTION_REVERSE \in DOMAIN commands /\ DIRECTION_FORWARD \in DOMAIN commands

SupportsOscillate(commands) == "oscillate" \in DOMAIN commands

----------------------------------------------------------------------------
(* homeassistant.util.percentage, as fan.py uses it *)

IndexOf(list, item) == CHOOSE i \in 1..Len(list) : list[i] = item /\ \A j \in 1..(i-1) : list[j] # item

\* (list_position * 100) // list_len
ordered_list_item_to_percentage(list, item) == (IndexOf(list, item) * 100) \div Len(list)

percentage_to_ordered_list_item_lt(list, percentage) ==
    LET fits == {i \in 1..Len(list) : percentage < (i * 100) \div Len(list)}
    IN  IF fits = {} THEN list[Len(list)]
        ELSE list[CHOOSE i \in fits : \A j \in fits : i <= j]

\* the first level whose upper bound (list_position * 100) // list_len is >= percentage
percentage_to_ordered_list_item(list, percentage) ==
    LET fits == {i \in 1..Len(list) : percentage <= (i * 100) \div Len(list)}
    IN  IF fits = {} THEN list[Len(list)]
        ELSE list[CHOOSE i \in fits : \A j \in fits : i <= j]

\* Each level's own percentage.
LevelPercentages(list) == {ordered_list_item_to_percentage(list, l) : l \in Levels(list)}

\* The percentages async_set_percentage is called with: off, the lowest value,
\* and each level's own percentage (the highest value among them).
Percentages(list) == {0, 1} \cup LevelPercentages(list)

----------------------------------------------------------------------------
(* Properties of the entity *)

\* SmartIRFan.state
state(on_by_remote, speed) ==
    IF on_by_remote \/ speed # SPEED_OFF THEN STATE_ON ELSE SPEED_OFF

\* SmartIRFan.percentage is computed on every state write; it raises ValueError
\* when the speed is neither SPEED_OFF nor an item of the speed list.
PercentageDefined(list, speed) == speed = SPEED_OFF \/ speed \in Levels(list)

percentage(list, speed) ==
    IF speed = SPEED_OFF THEN 0 ELSE ordered_list_item_to_percentage(list, speed)

Truthy(v) == v = "True"

----------------------------------------------------------------------------
(* send_command *)

\* `self._direction or "default"`
DirectionKey(direction) == IF direction = None THEN "default" ELSE direction

\* Whether the lookups of send_command find a payload (no KeyError).
HasCommand(commands, speed, direction, oscillating) ==
    IF speed = SPEED_OFF THEN "off" \in DOMAIN commands
    ELSE IF Truthy(oscillating) THEN "oscillate" \in DOMAIN commands
    ELSE /\ DirectionKey(direction) \in DOMAIN commands
         /\ speed \in DOMAIN commands[DirectionKey(direction)]

resolve_oscillate_first(commands, speed, direction, oscillating) ==
    IF Truthy(oscillating) /\ "oscillate" \in DOMAIN commands THEN commands["oscillate"]
    ELSE IF speed = SPEED_OFF THEN commands["off"]
    ELSE commands[DirectionKey(direction)][speed]

\* The payload send_command picks.
resolve(commands, speed, direction, oscillating) ==
    IF speed = SPEED_OFF THEN commands["off"]
    ELSE IF Truthy(oscillating) THEN commands["oscillate"]
    ELSE commands[DirectionKey(direction)][speed]

CanAcquire_barging(isLocked, queue) == ~isLocked

CanAcquire_unguarded(isLocked, queue) == TRUE

\* asyncio.Lock.acquire returns at once when the lock is free and nobody waits.
CanAcquire(isLocked, queue) == ~isLocked /\ queue = <<>>

Dispatch_holds_lock(t, c, speed, direction, oscillating) ==
    /\ _on_by_remote' = FALSE
    /\ IF HasCommand(_commands, speed, direction, oscillating)
       THEN LET command == resolve(_commands, speed, direction, oscillating)
            IN  /\ locked' = TRUE
                /\ calls' = [calls EXCEPT ![t] = [c EXCEPT !.pc = "send", !.command = command]]
                /\ sendLog' = Append(sendLog, [call |-> t, command |-> command])
       ELSE /\ locked' = TRUE
            /\ calls' = [calls EXCEPT ![t] = [c EXCEPT !.pc = "raised", !.error = "KeyError"]]
            /\ sendLog' = sendLog

\* send_command from the lock's acquisition to the suspension in controller.send,
\* or to the KeyError of a failed lookup (which leaves the `async with` block and
\* releases the lock).  c is the call's record, speed/direction/oscillating the
\* fields as the stretch finds them.
Dispatch(t, c, speed, direction, oscillating) ==
    /\ _on_by_remote' = FALSE
    /\ IF HasCommand(_commands, speed, direction, oscillating)
       THEN LET command == resolve(_commands, speed, direction, oscillating)
            IN  /\ locked' = TRUE
                /\ calls' = [calls EXCEPT ![t] = [c EXCEPT !.pc = "send", !.command = command]]
                /\ sendLog' = Append(sendLog, [call |-> t, command |-> command])
       ELSE /\ locked' = FALSE
            /\ calls' = [calls EXCEPT ![t] = [c EXCEPT !.pc = "raised", !.error = "KeyError"]]
            /\ sendLog' = sendLog

\* `await self.send_command()` as the caller reaches it: the lock is taken at once,
\* or the call queues behind it.
send_command(t, c, speed, direction, oscillating) ==
    IF CanAcquire(locked, waiters)
    THEN /\ Dispatch(t, c, speed, direction, oscillating)
         /\ waiters' = waiters
    ELSE /\ calls' = [calls EXCEPT ![t] = [c EXCEPT !.pc = "lock", !.queued = TRUE]]
         /\ waiters' = Append(waiters, t)
         /\ UNCHANGED <<locked, sendLog, _on_by_remote>>

----------------------------------------------------------------------------
(* Construction and setup *)

\* A call's record: the service and its arguments, where its coroutine stands
\* (pc: idle, lock = queued on the lock, send = suspended in controller.send,
\* done, raised), the payload it handed to the controller, how the send ended,
\* the exception it raised and whether it wrote the entity's state.  Two fields
\* only record history: speed is _speed as the call's own assignments left it,
\* queued whether the call had to wait for the lock.
NoCall == [op |-> "none", percentage |-> NoPercentage, oscillating |-> FALSE,
             direction |-> None, pc |-> "idle", command |-> <<>>, result |-> "",
           error |-> "", wrote |-> FALSE, speed |-> None, queued |-> FALSE]

\* SmartIRFan.__init__
Init ==
    /\ \E d \in DeviceDefinitions :
        /\ _speed_list = d.speed
        /\ _commands = d.commands
        /\ _direction = IF SupportsDirection(d.commands) THEN DIRECTION_REVERSE ELSE None
        /\ _oscillating = IF SupportsOscillate(d.commands) THEN "False" ELSE None
    /\ _power_sensor \in BOOLEAN
    /\ _speed = SPEED_OFF
    /\ _last_on_speed = None
    /\ _on_by_remote = FALSE
    /\ locked = FALSE
    /\ waiters = <<>>
    /\ added = FALSE
    /\ subscribed = FALSE
    /\ sensor = None
    /\ calls = [t \in Calls |-> NoCall]
    /\ sendLog = <<>>

\* What async_get_last_state can return: nothing, or the attributes the entity
\* exposed when it was last running (last_on_speed, and direction when supported).
LastStates ==
    {[present |-> FALSE, attributes |-> [last_on_speed |-> None]]}
    \cup {[present |-> TRUE, attributes |-> [last_on_speed |-> l]] :
            l \in {None} \cup Levels(_speed_list)}
    \cup {[present |-> TRUE, attributes |-> [last_on_speed |-> l, direction |-> d]] :
            l \in {None} \cup Levels(_speed_list),
            d \in IF SupportsDirection(_commands)
                  THEN {DIRECTION_FORWARD, DIRECTION_REVERSE} ELSE {}}

async_added_to_hass(last_state) ==
    /\ ~added
    /\ added' = TRUE
    /\ IF last_state.present
       THEN /\ _speed' = IF "speed" \in DOMAIN last_state.attributes
                         THEN last_state.attributes["speed"] ELSE _speed
            /\ _direction' = IF /\ "direction" \in DOMAIN last_state.attributes
                                /\ SupportsDirection(_commands)
                             THEN last_state.attributes["direction"] ELSE _direction
            /\ _last_on_speed' = IF "last_on_speed" \in DOMAIN last_state.attributes
                                 THEN last_state.attributes["last_on_speed"]
                                 ELSE _last_on_speed
            /\ subscribed' = _power_sensor
       ELSE UNCHANGED <<_speed, _direction, _last_on_speed, subscribed>>
    /\ UNCHANGED <<device, _oscillating, _on_by_remote, locked, waiters, sensor,
                   calls, sendLog>>

----------------------------------------------------------------------------
(* The service calls.  Call t is issued once, after call t-1 (the calls are    *)
(* interchangeable, so only their order of issue is fixed).  The host issues   *)
(* calls once the entity is added, and the oscillate and direction services    *)
(* only on an entity that declares the feature.                                *)

\* The sensor's events multiply the interleavings of every call, so the runs of
\* an entity with a power sensor are cut one call earlier.
CallBudget == IF _power_sensor THEN MaxCalls ELSE MaxCalls + 1

CanIssue(t) ==
    /\ added
    /\ t <= CallBudget
    /\ calls[t].op = "none"
    /\ IF t = 1 THEN TRUE ELSE calls[t - 1].op # "none"

\* The body of async_set_percentage, for the call record c.
SetPercentage(t, c, p) ==
    LET speed == IF p = 0 THEN SPEED_OFF
                 ELSE percentage_to_ordered_list_item(_speed_list, p)
    IN  /\ _speed' = speed
        /\ _last_on_speed' = IF speed # SPEED_OFF THEN speed ELSE _last_on_speed
        /\ send_command(t, c, speed, _direction, _oscillating)
        /\ UNCHANGED <<device, _direction, _oscillating, added, subscribed, sensor>>

async_set_percentage(t, p) ==
    /\ CanIssue(t)
    /\ SetPercentage(t, [calls[t] EXCEPT !.op = "async_set_percentage", !.percentage = p,
                                           !.speed = _speed'], p)

async_oscillate(t, o) ==
    /\ CanIssue(t)
    /\ SupportsOscillate(_commands)
    /\ _oscillating' = (IF o THEN "True" ELSE "False")
    /\ send_command(t, [calls[t] EXCEPT !.op = "async_oscillate", !.oscillating = o,
                                        !.speed = _speed],
                    _speed, _direction, _oscillating')
    /\ UNCHANGED <<device, _speed, _direction, _last_on_speed, added, subscribed, sensor>>

DirectionDispatches_never(speed) == FALSE

DirectionDispatches_always(speed) == TRUE

\* `if self._speed != SPEED_OFF` of async_set_direction
DirectionDispatches(speed) == speed # SPEED_OFF

\* self.async_write_ha_state(): the state is written when its attributes can be
\* computed; the ValueError of `percentage` propagates to the caller otherwise.
WriteState(c, speed) ==
    IF PercentageDefined(_speed_list, speed)
    THEN [c EXCEPT !.pc = "done", !.wrote = TRUE]
    ELSE [c EXCEPT !.pc = "raised", !.error = "ValueError"]

async_set_direction(t, d) ==
    /\ CanIssue(t)
    /\ SupportsDirection(_commands)
    /\ _direction' = d
    /\ LET c == [calls[t] EXCEPT !.op = "async_set_direction", !.direction = d,
                                     !.speed = _speed]
       IN  IF DirectionDispatches(_speed)
           THEN send_command(t, c, _speed, d, _oscillating)
           ELSE /\ calls' = [calls EXCEPT ![t] = WriteState(c, _speed)]
                /\ UNCHANGED <<locked, waiters, sendLog, _on_by_remote>>
    /\ UNCHANGED <<device, _speed, _last_on_speed, _oscillating, added, subscribed, sensor>>

TurnOnSpeed_lowest(last_on_speed, list) == list[1]

\* `self._last_on_speed or self._speed_list[0]`
TurnOnSpeed(last_on_speed, list) ==
    IF last_on_speed # None THEN last_on_speed ELSE list[1]

async_turn_on(t, p) ==
    /\ CanIssue(t)
    /\ LET percent == IF p = NoPercentage
                      THEN ordered_list_item_to_percentage(
                               _speed_list, TurnOnSpeed(_last_on_speed, _speed_list))
                      ELSE p
       IN  SetPercentage(t, [calls[t] EXCEPT !.op = "async_turn_on", !.percentage = p,
                                             !.speed = _speed'], percent)

async_turn_off(t) ==
    /\ CanIssue(t)
    /\ SetPercentage(t, [calls[t] EXCEPT !.op = "async_turn_off", !.speed = _speed'], 0)

\* A call that queued on the lock is woken: the released lock goes to the first
\* waiter, which continues send_command with the fields as they are by then.
LockGranted(t) ==
    /\ calls[t].pc = "lock"
    /\ ~locked
    /\ waiters # <<>> /\ Head(waiters) = t
    /\ waiters' = Tail(waiters)
    /\ Dispatch(t, calls[t], _speed, _direction, _oscillating)
    /\ UNCHANGED <<device, fields, added, subscribed, sensor>>

\* self._controller.send(command) ends: the lock is released and the caller goes
\* on to async_write_ha_state.  ok = FALSE is the exception send_command logs.
SendReturns(t, ok) ==
    /\ calls[t].pc = "send"
    /\ locked' = FALSE
    /\ calls' = [calls EXCEPT ![t] =
                    WriteState([calls[t] EXCEPT !.result = IF ok THEN "sent" ELSE "failed"],
                               _speed)]
    /\ UNCHANGED <<device, fields, _on_by_remote, waiters, added, subscribed, sensor, sendLog>>

controller_send_ok(t) == SendReturns(t, TRUE)

controller_send_raises(t) == SendReturns(t, FALSE)

----------------------------------------------------------------------------
(* The power sensor *)

SensorStates == {None, STATE_ON, STATE_OFF, STATE_UNAVAILABLE}

\* Whether _async_power_sensor_changed gets past its two early returns.  With no
\* old state, `old_state.state` raises and the handler ends there.
SensorHandled(old, new) == new # None /\ old # None /\ new # old

SensorSpeed_keep(old, new, speed) ==
    IF SensorHandled(old, new) /\ new = STATE_ON /\ speed = SPEED_OFF THEN None
    ELSE speed

\* The speed the handler leaves.
SensorSpeed(old, new, speed) ==
    IF ~SensorHandled(old, new) THEN speed
    ELSE IF new = STATE_ON /\ speed = SPEED_OFF THEN None
    ELSE IF new = STATE_OFF THEN SPEED_OFF
    ELSE speed

SensorOnByRemote_on(old, new, speed, on_by_remote) ==
    IF ~SensorHandled(old, new) THEN on_by_remote
    ELSE IF new = STATE_OFF THEN FALSE
    ELSE IF new = STATE_ON THEN TRUE
    ELSE on_by_remote

\* The _on_by_remote the handler leaves.
SensorOnByRemote(old, new, speed, on_by_remote) ==
    IF ~SensorHandled(old, new) THEN on_by_remote
    ELSE IF new = STATE_OFF THEN FALSE
    ELSE IF new = STATE_ON /\ speed = SPEED_OFF THEN TRUE
    ELSE on_by_remote

\* The sensor's state changes to `new` and the subscribed handler runs.  It has no
\* suspension point and takes no lock.
_async_power_sensor_changed(new) ==
    /\ added /\ subscribed
    /\ sensor' = new
    /\ _speed' = SensorSpeed(sensor, new, _speed)
    /\ _on_by_remote' = SensorOnByRemote(sensor, new, _speed, _on_by_remote)
    /\ UNCHANGED <<device, _direction, _last_on_speed, _oscillating, locked, waiters,
                   added, subscribed, calls, sendLog>>

\* The sensor's state changes and nobody listens: async_added_to_hass subscribes
\* only when a last state was restored.
SensorUnobserved(new) ==
    /\ added /\ _power_sensor /\ ~subscribed
    /\ sensor # new
    /\ sensor' = new
    /\ UNCHANGED <<device, fields, _on_by_remote, locked, waiters, added, subscribed,
                   calls, sendLog>>

----------------------------------------------------------------------------

Next ==
    \/ \E ls \in LastStates : async_added_to_hass(ls)
    \/ \E t \in Calls : \E p \in Percentages(_speed_list) : async_set_percentage(t, p)
    \/ \E t \in Calls : \E o \in BOOLEAN : async_oscillate(t, o)
    \/ \E t \in Calls : \E d \in {DIRECTION_FORWARD, DIRECTION_REVERSE} : async_set_direction(t, d)
    \/ \E t \in Calls : \E p \in {NoPercentage} \cup LevelPercentages(_speed_list) : async_turn_on(t, p)
    \/ \E t \in Calls : async_turn_off(t)
    \/ \E t \in Calls : LockGranted(t)
    \/ \E t \in Calls : controller_send_ok(t)
    \/ \E t \in Calls : controller_send_raises(t)
    \/ \E new \in SensorStates : _async_power_sensor_changed(new)
    \/ \E new \in SensorStates : SensorUnobserved(new)

Spec == Init /\ [][Next]_vars

\* The event loop runs every coroutine that is ready: a waiter woken by the
\* lock's release gets the lock, and a controller.send that is pending returns,
\* normally or with an exception (the transport is assumed to answer).
Fairness ==
    \A t \in Calls :
        /\ WF_vars(LockGranted(t))
        /\ WF_vars(controller_send_ok(t) \/ controller_send_raises(t))

\* Whether a waiter gets the lock does not depend on how many levels the device
\* declares: the fair runs follow the devices with the shortest speed lists.
InitFair == Init /\ Len(_speed_list) <= FairSpeeds

SpecFair == InitFair /\ [][Next]_vars /\ Fairness

----------------------------------------------------------------------------
(* Saving and restoring across a restart *)

\* extra_state_attributes: the entity's own attributes.  The others it returns
\* (device_code, manufacturer, ...) are fixed by the device file.
extra_state_attributes == [last_on_speed |-> _last_on_speed]

\* The attributes of the state the host saves: the entity's own, and the ones the
\* fan platform derives from the properties: direction when supported, and
\* percentage and oscillating, which the restore never reads.
StateAttributes ==
    IF SupportsDirection(_commands)
    THEN [last_on_speed |-> extra_state_attributes.last_on_speed,
          direction |-> _direction]
    ELSE extra_state_attributes

\* The host stops with every coroutine ended and the entity's state written, and
\* starts again: a new SmartIRFan is constructed from the same configuration
\* and async_added_to_hass restores it from the state saved (always present
\* here, so the new entity subscribes to its power sensor).
Restart ==
    /\ added
    /\ calls[1].op # "none"
    /\ \A t \in Calls : calls[t].pc \in {"idle", "done", "raised"}
    /\ PercentageDefined(_speed_list, _speed)
    /\ LET last_state == [present |-> TRUE, attributes |-> StateAttributes]
       IN  /\ _speed' = IF "speed" \in DOMAIN last_state.attributes
                         THEN last_state.attributes["speed"] ELSE SPEED_OFF
           /\ _direction' = IF /\ "direction" \in DOMAIN last_state.attributes
                               /\ SupportsDirection(_commands)
                            THEN last_state.attributes["direction"]
                            ELSE IF SupportsDirection(_commands)
                                 THEN DIRECTION_REVERSE ELSE None
           /\ _last_on_speed' = IF "last_on_speed" \in DOMAIN last_state.attributes
                                THEN last_state.attributes["last_on_speed"]
                                ELSE None
    /\ _oscillating' = IF SupportsOscillate(_commands) THEN "False" ELSE None
    /\ _on_by_remote' = FALSE
    /\ locked' = FALSE
    /\ waiters' = <<>>
    /\ subscribed' = _power_sensor
    /\ calls' = [t \in Calls |-> NoCall]
    /\ sendLog' = <<>>
    /\ UNCHANGED <<device, added, sensor>>

NextRestart ==
    \/ Next
    \/ Restart

\* The entity over several runs of the host.
SpecRestart == Init /\ [][NextRestart]_vars

----------------------------------------------------------------------------
(* Vocabulary of the properties *)

\* The calls suspended in controller.send.
InFlight == {t \in Calls : calls[t].pc = "send"}

\* The positions of call t's sends in the controller's log.
SendsOf(t) == {i \in 1..Len(sendLog) : sendLog[i].call = t}

\* The coroutine of call t has ended.
Finished(t) == calls[t].pc \in {"done", "raised"}

\* Call t is past the acquisition of the lock.
PastDispatch(t) == calls[t].pc \in {"send", "done", "raised"}

\* Call t asks for percentage 0.
AsksOff(t) ==
    \/ calls[t].op = "async_turn_off"
    \/ calls[t].op \in {"async_set_percentage", "async_turn_on"} /\ calls[t].percentage = 0

\* This step issues call t.
Issued(t) == calls[t].op = "none" /\ calls'[t].op # "none"

\* In this step call t acquires the lock and hands a payload to the controller.
Dispatched(t) == calls[t].pc \in {"idle", "lock"} /\ calls'[t].pc = "send"

\* In this step the power sensor's handler changes what the entity believes.
SensorReconciles ==
    sensor' # sensor /\ (_speed' # _speed \/ _on_by_remote' # _on_by_remote)

----------------------------------------------------------------------------
(* C1 *)

----------------------------------------------------------------------------
(* C2 *)

\* C2: the sensor handler never changes _speed or _on_by_remote while a call is
\* queued on the lock or suspended in its send, and a call assigns the entity's
\* fields only while it holds the lock (a call that queues has assigned nothing).
C2_SensorExcludedFromCalls ==
    [][ /\ SensorReconciles => \A t \in Calls : calls[t].pc \notin {"lock", "send"}
        /\ \A t \in Calls :
              Issued(t) /\ calls'[t].pc = "lock" =>
                  /\ _speed' = _speed
                  /\ _direction' = _direction
                  /\ _oscillating' = _oscillating
                  /\ _last_on_speed' = _last_on_speed ]_vars

----------------------------------------------------------------------------
(* C3 *)

\* C3: every call asking for percentage 0 (async_set_percentage(0), async_turn_off)
\* hands the off-command to the controller: once such a call is past the lock,
\* the payload it sent is commands["off"].
C3_OffAlwaysTransmitted ==
    \A t \in Calls :
        AsksOff(t) /\ PastDispatch(t) => calls[t].command = _commands["off"]

----------------------------------------------------------------------------
(* C4 *)

\* Call t is async_set_percentage(percentageOf(L)) (read in the state after the step).
AsksLevel(t, L) ==
    /\ calls'[t].op = "async_set_percentage"
    /\ calls'[t].percentage = ordered_list_item_to_percentage(_speed_list, L)

----------------------------------------------------------------------------
(* C5 *)

\* C5: whenever a call hands a payload to the controller, the payload follows
\* the precedence off > oscillate > directional speed on the fields as they are
\* at that moment: commands["off"] when _speed is off; otherwise
\* commands["oscillate"] when _oscillating is true, whatever _speed and
\* _direction are; otherwise commands[direction or "default"][speed].  The
\* payload logged by the controller is that payload.
C5_ResolutionPrecedence ==
    [][ \A t \in Calls :
            Dispatched(t) =>
                /\ _speed' = SPEED_OFF => calls'[t].command = _commands["off"]
                /\ _speed' # SPEED_OFF /\ _oscillating' = "True" =>
                       calls'[t].command = _commands["oscillate"]
                /\ _speed' # SPEED_OFF /\ _oscillating' # "True" =>
                       calls'[t].command = _commands[DirectionKey(_direction')][_speed']
                /\ sendLog' = Append(sendLog, [call |-> t, command |-> calls'[t].command]) ]_vars

\* A call sent the oscillate-command while the speed was a declared level and a
\* direction had been set; the calls before it sent a level's payload each.
C5_Witness ==
    /\ _oscillating = "True"
    /\ _direction = DIRECTION_FORWARD
    /\ _speed \in Levels(_speed_list)
    /\ calls[1].command = <<DIRECTION_REVERSE, _speed>>
    /\ calls[2].command = <<DIRECTION_FORWARD, _speed>>
    /\ calls[3].op = "async_oscillate"
    /\ calls[3].command = _commands["oscillate"]
    /\ Finished(3)

----------------------------------------------------------------------------
(* C6 *)

\* C6: async_turn_on() without a percentage sets _speed to _last_on_speed when
\* that is known and to the first level of the speed list otherwise;
\* async_turn_off and the sensor handler leave _last_on_speed as it is.
C6_TurnOnResumes ==
    [][ /\ \A t \in Calls :
              Issued(t) /\ calls'[t].op = "async_turn_on"
                        /\ calls'[t].percentage = NoPercentage =>
                  _speed' = IF _last_on_speed # None THEN _last_on_speed
                            ELSE _speed_list[1]
        /\ \A t \in Calls :
              Issued(t) /\ calls'[t].op = "async_turn_off" =>
                  _speed' = SPEED_OFF /\ _last_on_speed' = _last_on_speed
        /\ sensor' # sensor => _last_on_speed' = _last_on_speed ]_vars

\* After an async_turn_off, async_turn_on() resumed the last speed, which is
\* not the lowest level.
C6_Witness ==
    /\ calls[1].op = "async_turn_off"
    /\ calls[2].op = "async_turn_on" /\ calls[2].percentage = NoPercentage
    /\ calls[2].speed = _last_on_speed
    /\ _last_on_speed \in Levels(_speed_list) /\ _last_on_speed # _speed_list[1]
    /\ _speed = _last_on_speed

----------------------------------------------------------------------------
(* C7 *)

----------------------------------------------------------------------------
(* C8 *)

\* C8: every async_set_percentage call and every async_oscillate call makes
\* exactly one call of controller.send: none before it acquires the lock, one
\* from then on, whether or not it changed the fields.
C8_AlwaysOneSend ==
    \A t \in Calls :
        calls[t].op \in {"async_set_percentage", "async_oscillate"} =>
            Cardinality(SendsOf(t)) = IF PastDispatch(t) THEN 1 ELSE 0

----------------------------------------------------------------------------
(* C9 *)

\* This step delivers a notification carrying an old and a new value that differ.
SensorNotifies == subscribed /\ sensor # None /\ sensor' # None /\ sensor' # sensor

\* C9: a sensor notification never calls the controller and touches no call;
\* an ON notification received while _speed is off sets _on_by_remote and makes
\* the reported state ON; an OFF notification clears _on_by_remote and leaves
\* _speed off, the reported state OFF.
C9_SensorReconciles ==
    [][ /\ sensor' # sensor => sendLog' = sendLog /\ calls' = calls /\ locked' = locked
        /\ SensorNotifies /\ sensor' = STATE_ON /\ _speed = SPEED_OFF =>
               /\ _on_by_remote'
               /\ state(_on_by_remote', _speed') = STATE_ON
        /\ SensorNotifies /\ sensor' = STATE_OFF =>
               /\ ~_on_by_remote'
               /\ _speed' = SPEED_OFF
               /\ state(_on_by_remote', _speed') = SPEED_OFF ]_vars

\* After an ON notification had made the entity on by remote, an OFF
\* notification brought it back to off; the controller was called once, by the
\* call that had turned the fan off before.
C9_Witness ==
    /\ subscribed
    /\ sensor = STATE_OFF
    /\ ~_on_by_remote /\ _speed = SPEED_OFF
    /\ calls[1].op = "async_turn_on" /\ calls[1].pc = "done"
    /\ calls[1].speed \in Levels(_speed_list)
    /\ calls[2].op = "none"
    /\ Len(sendLog) = 1

\* The entity is on by remote: an ON notification arrived while _speed was off,
\* after a call had sent the off-command, and no send followed.
C9_WitnessOn ==
    /\ subscribed
    /\ sensor = STATE_ON
    /\ _on_by_remote /\ _speed = None
    /\ calls[1].op = "async_turn_off" /\ calls[1].pc = "done"
    /\ calls[2].op = "none"
    /\ Len(sendLog) = 1

----------------------------------------------------------------------------
(* C10 *)

\* In this step the send of call t raises.
SendFails(t) == calls[t].pc = "send" /\ calls'[t].result = "failed"

\* C10: when controller.send raises, the fields stay as they are (no rollback),
\* no further send is made, the lock is released, and the call completes and
\* writes the entity's state.
C10_SendFailureKeepsState ==
    [][ \A t \in Calls :
            SendFails(t) =>
                /\ _speed' = _speed /\ _direction' = _direction
                /\ _oscillating' = _oscillating /\ _last_on_speed' = _last_on_speed
                /\ sendLog' = sendLog
                /\ ~locked'
                /\ calls'[t].pc = "done" /\ calls'[t].wrote ]_vars

----------------------------------------------------------------------------
(* C11 *)

\* This step is a restart: the calls of the run that ended are forgotten.
Restarted == calls[1].op # "none" /\ calls'[1].op = "none"

\* C11: the state saved when the host stops and loaded when it starts again
\* reproduces _speed, _direction, _oscillating and _last_on_speed.
C11_RoundTrip ==
    [][ Restarted =>
            /\ _speed' = _speed
            /\ _direction' = _direction
            /\ _oscillating' = _oscillating
            /\ _last_on_speed' = _last_on_speed ]_vars

----------------------------------------------------------------------------
(* C12 *)

\* C12: no call ever reaches a lookup of send_command that finds no payload.
C12_ResolutionNeverFails == \A t \in Calls : calls[t].error # "KeyError"

----------------------------------------------------------------------------
(* C13 *)

\* In this step a lookup of call t's send_command raises KeyError.
ResolutionFails(t) == calls[t].error # "KeyError" /\ calls'[t].error = "KeyError"

\* C13: when the lookup finds no payload, nothing is handed to the controller,
\* the fields keep what the call assigned (a call that fails as it is issued
\* leaves its own assignment, a call that fails after queueing changes
\* nothing), the call ends with the exception without writing its state, and
\* the lock is free for the calls that follow.
C13_ResolutionFailureAborts ==
    [][ \A t \in Calls :
            ResolutionFails(t) =>
                /\ sendLog' = sendLog
                /\ calls'[t].command = <<>> /\ SendsOf(t) = {}
                /\ calls'[t].pc = "raised" /\ ~calls'[t].wrote
                /\ ~locked'
                /\ calls[t].pc = "lock" => fields' = fields
                /\ Issued(t) =>
                     /\ _speed' = _speed /\ _last_on_speed' = _last_on_speed
                     /\ calls'[t].op \in {"async_oscillate", "async_set_direction"}
                     /\ calls'[t].op = "async_oscillate" =>
                          /\ Truthy(_oscillating') = calls'[t].oscillating
                          /\ _direction' = _direction
                     /\ calls'[t].op = "async_set_direction" =>
                          /\ _direction' = calls'[t].direction
                          /\ _oscillating' = _oscillating ]_vars

\* The lookup of call 1 failed (sensor on, level unknown), and call 2, issued
\* after it, found the lock free, sent its payload and completed.
C13_Witness ==
    /\ calls[1].error = "KeyError" /\ calls[1].pc = "raised"
    /\ calls[2].op = "async_set_percentage" /\ ~calls[2].queued
    /\ calls[2].pc = "done"
    /\ Len(sendLog) = 1 /\ sendLog[1].call = 2

----------------------------------------------------------------------------
(* C14 *)

\* C14: _on_by_remote and a declared level as _speed never hold together.
C14_RemoteExcludesLevel == ~(_on_by_remote /\ _speed \in Levels(_speed_list))

----------------------------------------------------------------------------
(* C15 *)

\* This step delivers a notification the handler ignores: its new state is
\* absent, or is ON while _speed is not off.
SensorIgnores ==
    /\ subscribed /\ sensor' # sensor
    /\ sensor' = None \/ (sensor' = STATE_ON /\ _speed # SPEED_OFF)

\* This step is nothing but a notification whose new state equals the old one:
\* no call moves and the sensor's state stays.
SensorRepeats == subscribed /\ sensor' = sensor /\ calls' = calls /\ added' = added

\* C15: a notification that is ignored (new equal to old, new absent, or ON
\* while _speed is not off) leaves the four fields and _on_by_remote as they
\* are, hands nothing to the controller and touches neither the lock nor a call.
C15_IgnoredNotification ==
    [][ SensorIgnores \/ SensorRepeats =>
            /\ fields' = fields
            /\ _on_by_remote' = _on_by_remote
            /\ sendLog' = sendLog
            /\ calls' = calls /\ locked' = locked /\ waiters' = waiters ]_vars

\* The sensor's entity vanished (new state absent) after an ON that had been
\* reconciled: the notification was ignored, the entity is still on-by-remote
\* at an unknown level.
C15_Witness ==
    /\ subscribed /\ sensor = None
    /\ _on_by_remote /\ _speed = None
    /\ calls[1].op = "none"

----------------------------------------------------------------------------
(* C16 *)

\* C16: once an entity with a power sensor is set up, from a restored state
\* or from the defaults, a notification that the sensor went ON while _speed
\* is off makes the entity on-by-remote and its reported state ON.
C16_ReconciledFromSetup ==
    [][ /\ _power_sensor /\ added
        /\ sensor # None /\ sensor # STATE_ON /\ sensor' = STATE_ON
        /\ _speed = SPEED_OFF
        => /\ _on_by_remote'
           /\ state(_on_by_remote', _speed') = STATE_ON ]_vars

----------------------------------------------------------------------------
(* C17 *)

\* C17: in every reachable state the percentage of the entity's state can be
\* computed: _speed is off or a declared level.
C17_PercentageAlwaysDefined == PercentageDefined(_speed_list, _speed)

----------------------------------------------------------------------------
(* C18 *)

\* Every call that was issued has ended.
Quiescent == \A t \in Calls : calls[t].op = "none" \/ Finished(t)

\* C18: on an entity whose sensor handler never ran, once every call issued has
\* ended without a failed lookup and the controller was called at least once,
\* the last payload handed to the controller is the one send_command picks for
\* the fields as they stand.
C18_QuiescentConsistency ==
    /\ ~subscribed
    /\ Quiescent
    /\ \A t \in Calls : calls[t].error # "KeyError"
    /\ sendLog # <<>>
    => sendLog[Len(sendLog)].command = resolve(_commands, _speed, _direction, _oscillating)

\* Three calls were issued together, the second and the third queued behind
\* the first one's send; the third is an async_set_direction that changed the
\* direction of a running fan.  All three ended, with three sends, and the last
\* payload is the running level's, in the new direction.
C18_Witness ==
    /\ ~subscribed
    /\ calls[2].queued /\ calls[3].queued
    /\ calls[2].op = "async_set_percentage"
    /\ calls[3].op = "async_set_direction" /\ calls[3].direction = DIRECTION_FORWARD
    /\ Quiescent /\ Finished(3)
    /\ Len(sendLog) = 3
    /\ _speed \in Levels(_speed_list)
    /\ sendLog[3].command = <<DIRECTION_FORWARD, _speed>>
    /\ sendLog[1].command # sendLog[3].command

----------------------------------------------------------------------------
(* C19 *)

\* C19: the payload sent for an async_set_percentage call that had to queue
\* on the lock is one of the speed this call assigned: the off command when
\* it assigned off; when it assigned a level, that level's payload in some
\* direction, or the oscillate command.
C19_QueuedPayloadOfOwnSpeed ==
    \A t \in Calls :
        /\ calls[t].op = "async_set_percentage"
        /\ calls[t].queued
        /\ calls[t].pc \in {"send", "done"}
        => LET command == calls[t].command
           IN  IF calls[t].speed = SPEED_OFF THEN command = _commands["off"]
               ELSE \/ command = <<"oscillate">>
                    \/ Len(command) = 2 /\ command[2] = calls[t].speed

----------------------------------------------------------------------------
(* C20 *)

\* Call t has asked for the lock and has not ended.
Pending(t) == calls[t].pc \in {"lock", "send"}

\* C20: every call that asked for the lock gets it and ends, by a send that
\* returned or raised or by a failed lookup; the waiters leave the queue from
\* its head; the controller is called in the order the calls asked; and when
\* every call has ended the lock is free and nobody waits.
C20_NoStarvation ==
    /\ \A t \in Calls : Pending(t) ~> Finished(t)
    /\ [][ \A t \in Calls :
              calls[t].pc = "lock" /\ calls'[t].pc # "lock" =>
                  /\ ~locked
                  /\ Head(waiters) = t /\ waiters' = Tail(waiters) ]_vars
    /\ [](\A i, j \in 1..Len(sendLog) : i < j => sendLog[i].call < sendLog[j].call)
    /\ [](Quiescent => ~locked /\ waiters = <<>>)

\* The send of call 1 raised; call 2, which had queued behind it, then got the
\* lock and ended on a failed lookup; the lock is free and nobody waits.
C20_Witness ==
    /\ calls[1].result = "failed" /\ Finished(1)
    /\ calls[2].queued /\ calls[2].error = "KeyError" /\ Finished(2)
    /\ ~locked /\ waiters = <<>>

====
